---- MODULE Spec2Model ----
(***************************************************************************)
(* calcular_estadisticas_pacientes (src/1001010.py): one pass over a list  *)
(* of patient records that counts, per tipoEnfermedad, the records whose   *)
(* fechaIngreso lies in [fecha_inicio, fecha_fin], and optionally averages *)
(* one metric field.                                                       *)
(*                                                                         *)
(* Python values are tagged records ([t |-> "str", v |-> <<chars>>], ...); *)
(* a registro is a function from key names to such values, a missing key   *)
(* is a key outside its DOMAIN.                                            *)
(***************************************************************************)
EXTENDS Integers, Sequences, FiniteSets, TLC

(***************************************************************************)
(* Bounds of the model.                                                    *)
(***************************************************************************)
\* longest list of records under Spec (dates and categories)
MaxLen == 2
\* longest list of records under SpecM (metric values)
MaxLenM == 3

(***************************************************************************)
(* Python values.                                                          *)
(***************************************************************************)
PyNone == [t |-> "NoneType"]
PyStr(s) == [t |-> "str", v |-> s]
\* an int is hi * 2^53 + lo (lo far below 2^52); over marks an int of
\* magnitude >= 2^1024, such as 10**400
PyInt(hi, lo) == [t |-> "int", hi |-> hi, lo |-> lo, over |-> FALSE]
PyHugeInt == [t |-> "int", hi |-> 0, lo |-> 0, over |-> TRUE]
\* a double holding the integer hi * 2^53 + lo
PyFloat(hi, lo) == [t |-> "float", hi |-> hi, lo |-> lo]
PyDate(y, m, d) == [t |-> "date", y |-> y, m |-> m, d |-> d]
\* datetime.datetime(y, m, d): midnight of that day
PyDateTime(y, m, d) == [t |-> "datetime", y |-> y, m |-> m, d |-> d]
\* the name of a field, as passed for campo_metrica
PyName(k) == [t |-> "str", k |-> k]

\* bool(x) for the values the function tests with `not tipo` / `if campo_metrica`
Truthy(x) ==
  CASE x.t = "NoneType" -> FALSE
    [] x.t = "str" -> IF "k" \in DOMAIN x THEN x.k # "" ELSE Len(x.v) > 0
    [] x.t = "int" -> x.over \/ x.hi # 0 \/ x.lo # 0
    [] OTHER -> TRUE

\* registro.get(k)
Get(registro, k) == IF k \in DOMAIN registro THEN registro[k] ELSE PyNone

(***************************************************************************)
(* Calendar: datetime.date ordering and validity.                          *)
(***************************************************************************)
IsLeap(y) == (y % 4 = 0 /\ y % 100 # 0) \/ y % 400 = 0

DaysInMonth(y, m) ==
  IF m = 2 THEN (IF IsLeap(y) THEN 29 ELSE 28)
  ELSE IF m \in {4, 6, 9, 11} THEN 30 ELSE 31

\* mutant of DateLE: the day compared with < (an exclusive bound)
DateLEEstricto(a, b) ==
  \/ a.y < b.y
  \/ a.y = b.y /\ a.m < b.m
  \/ a.y = b.y /\ a.m = b.m /\ a.d < b.d

\* a <= b for two datetime.date values
DateLE(a, b) ==
  \/ a.y < b.y
  \/ a.y = b.y /\ a.m < b.m
  \/ a.y = b.y /\ a.m = b.m /\ a.d <= b.d

(***************************************************************************)
(* datetime.datetime.strptime(s, "%Y-%m-%d").date() on a string given as   *)
(* its sequence of characters.  The format compiles to the regex           *)
(*   (\d\d\d\d)-(1[0-2]|0[1-9]|[1-9])-(3[01]|[12]\d|0[1-9]|[1-9]| [1-9])   *)
(* matched at the start; text left over, or a day the month does not have, *)
(* or year 0, is a ValueError.                                             *)
(***************************************************************************)
DigitChars == <<"0", "1", "2", "3", "4", "5", "6", "7", "8", "9">>
IsDigit(c) == \E i \in 1..10 : DigitChars[i] = c
DigitVal(c) == (CHOOSE i \in 1..10 : DigitChars[i] = c) - 1
CharAt(s, i) == IF i \in 1..Len(s) THEN s[i] ELSE "$"
In19(c) == IsDigit(c) /\ c # "0"

\* the %m group at position i: <<value, next position>>, or <<0, 0>>
MatchMonth(s, i) ==
  LET a == CharAt(s, i)
      b == CharAt(s, i + 1)
  IN  IF a = "1" /\ b \in {"0", "1", "2"} THEN <<10 + DigitVal(b), i + 2>>
      ELSE IF a = "0" /\ In19(b) THEN <<DigitVal(b), i + 2>>
      ELSE IF In19(a) THEN <<DigitVal(a), i + 1>>
      ELSE <<0, 0>>

\* the %d group at position i: <<value, next position>>, or <<0, 0>>
MatchDay(s, i) ==
  LET a == CharAt(s, i)
      b == CharAt(s, i + 1)
  IN  IF a = "3" /\ b \in {"0", "1"} THEN <<30 + DigitVal(b), i + 2>>
      ELSE IF a \in {"1", "2"} /\ IsDigit(b) THEN <<10 * DigitVal(a) + DigitVal(b), i + 2>>
      ELSE IF a = "0" /\ In19(b) THEN <<DigitVal(b), i + 2>>
      ELSE IF In19(a) THEN <<DigitVal(a), i + 1>>
      ELSE IF a = " " /\ In19(b) THEN <<DigitVal(b), i + 2>>
      ELSE <<0, 0>>

\* the parsed date, or PyNone where strptime raises ValueError
Strptime(s) ==
  IF ~ (\A i \in 1..4 : IsDigit(CharAt(s, i))) \/ CharAt(s, 5) # "-" THEN PyNone
  ELSE
    LET y == 1000 * DigitVal(s[1]) + 100 * DigitVal(s[2]) + 10 * DigitVal(s[3]) + DigitVal(s[4])
        mm == MatchMonth(s, 6)
    IN  IF mm[2] = 0 \/ CharAt(s, mm[2]) # "-" THEN PyNone
        ELSE
          LET dd == MatchDay(s, mm[2] + 1)
          IN  IF dd[2] = 0 \/ dd[2] # Len(s) + 1 THEN PyNone
              ELSE IF y < 1 \/ dd[1] > DaysInMonth(y, mm[1]) THEN PyNone
              ELSE PyDate(y, mm[1], dd[1])

(***************************************************************************)
(* float(x) and float addition.  A double in the model holds a             *)
(* non-negative integer hi * 2^53 + lo.  Below 2^53 every integer is a     *)
(* double; in [2^(53+e), 2^(54+e)) doubles are 2^(e+1) apart, and a sum is *)
(* rounded to the nearest, ties to the even significand.                   *)
(***************************************************************************)
RECURSIVE Spacing(_)
\* distance between neighbouring doubles at hi * 2^53, hi >= 1
Spacing(hi) == IF hi <= 1 THEN 2 ELSE 2 * Spacing(hi \div 2)

\* the double nearest to the integer hi * 2^53 + lo
RoundDouble(hi, lo) ==
  IF hi = 0 THEN PyFloat(0, lo)
  ELSE
    LET sp == Spacing(hi)
        q == lo \div sp
        r == lo % sp
        up == \/ 2 * r > sp
              \/ 2 * r = sp /\ q % 2 = 1
    IN  PyFloat(hi, sp * (IF up THEN q + 1 ELSE q))

\* a + b on doubles
FloatAdd(a, b) == RoundDouble(a.hi + b.hi, a.lo + b.lo)

RECURSIVE DigitsValue(_)
\* the integer a string of decimal digits denotes
DigitsValue(s) ==
  IF Len(s) = 0 THEN 0
  ELSE 10 * DigitsValue(SubSeq(s, 1, Len(s) - 1)) + DigitVal(s[Len(s)])

\* float(x): [ok |-> TRUE, val |-> double] or [ok |-> FALSE, exc |-> raised type].
\* The strings of the model are runs of decimal digits, which convert to their
\* value, and texts such as "N/A" that hold characters no float literal has.
ToFloat(x) ==
  CASE x.t = "int" ->
         IF x.over THEN [ok |-> FALSE, exc |-> "OverflowError"]
         ELSE [ok |-> TRUE, val |-> RoundDouble(x.hi, x.lo)]
    [] x.t = "float" -> [ok |-> TRUE, val |-> x]
    [] x.t = "str" ->
         IF "v" \in DOMAIN x /\ Len(x.v) > 0 /\ (\A i \in 1..Len(x.v) : IsDigit(x.v[i]))
         THEN [ok |-> TRUE, val |-> PyFloat(0, DigitsValue(x.v))]
         ELSE [ok |-> FALSE, exc |-> "ValueError"]
    [] OTHER -> [ok |-> FALSE, exc |-> "TypeError"]

(***************************************************************************)
(* The accumulator: resultados, a defaultdict from tipo to                 *)
(* {"count": 0, "sum_metric": 0.0}, as a function over the keys inserted.  *)
(***************************************************************************)
\* mutant of DefaultEntry: the count starts at 1
DefaultEntryUno == [count |-> 1, sum_metric |-> PyFloat(0, 0)]

\* lambda: {"count": 0, "sum_metric": 0.0}
DefaultEntry == [count |-> 0, sum_metric |-> PyFloat(0, 0)]

\* resultados[tipo]: the defaultdict inserts the default entry at a missing key
Touch(res, tipo) ==
  IF tipo \in DOMAIN res THEN res
  ELSE [k \in DOMAIN res \cup {tipo} |-> IF k = tipo THEN DefaultEntry ELSE res[k]]

\* mutant of IncCount: `= 1` for `+= 1`
IncCountAsignado(res, tipo) ==
  LET r == Touch(res, tipo)
  IN  [r EXCEPT ![tipo].count = 1]

\* resultados[tipo]["count"] += 1
IncCount(res, tipo) ==
  LET r == Touch(res, tipo)
  IN  [r EXCEPT ![tipo].count = @ + 1]

\* mutant of AddMetric: `= valor` for `+= valor`
AddMetricAsignado(res, tipo, valor) ==
  LET r == Touch(res, tipo)
  IN  [r EXCEPT ![tipo].sum_metric = valor]

\* resultados[tipo]["sum_metric"] += valor
AddMetric(res, tipo, valor) ==
  LET r == Touch(res, tipo)
  IN  [r EXCEPT ![tipo].sum_metric = FloatAdd(@, valor)]

(***************************************************************************)
(* The body of the loop for one registro.                                  *)
(***************************************************************************)
\* mutant of FechaNormalizada: strptime's datetime kept, without .date()
FechaNormalizadaSinDate(registro) ==
  LET f == Get(registro, "fechaIngreso")
  IN  IF f.t = "str"
      THEN (LET p == Strptime(f.v)
            IN  [skip |-> p = PyNone,
                 fecha |-> IF p = PyNone THEN p ELSE PyDateTime(p.y, p.m, p.d)])
      ELSE [skip |-> FALSE, fecha |-> f]

\* lines 35-41: the date to compare; skip is the `continue` of the except
FechaNormalizada(registro) ==
  LET f == Get(registro, "fechaIngreso")
  IN  IF f.t = "str"
      THEN (LET p == Strptime(f.v) IN [skip |-> p = PyNone, fecha |-> p])
      ELSE [skip |-> FALSE, fecha |-> f]

\* fecha_inicio <= fecha_ingreso <= fecha_fin, for a fecha_ingreso that is not None:
\* "in", "out", or "TypeError" when fecha_ingreso is no datetime.date (date.__le__
\* refuses a datetime.datetime as well as an int)
EnIntervalo(ini, f, fin) ==
  IF f.t # "date" THEN "TypeError"
  ELSE IF DateLE(ini, f) /\ DateLE(f, fin) THEN "in" ELSE "out"

\* mutant of AcumularMetrica: a value that does not convert takes the
\* registro out of the count again
AcumularMetricaDescuenta(res, registro, tipo, campo) ==
  IF Truthy(campo) /\ campo.k \in DOMAIN registro
  THEN LET c == ToFloat(registro[campo.k])
       IN  IF c.ok THEN [res |-> AddMetric(res, tipo, c.val), exc |-> "none"]
           ELSE IF c.exc \in {"ValueError", "TypeError"}
           THEN [res |-> [res EXCEPT ![tipo].count = @ - 1], exc |-> "none"]
           ELSE [res |-> res, exc |-> c.exc]
  ELSE [res |-> res, exc |-> "none"]

\* lines 55-61 on a counted registro: [res, exc]
AcumularMetrica(res, registro, tipo, campo) ==
  IF Truthy(campo) /\ campo.k \in DOMAIN registro
  THEN LET c == ToFloat(registro[campo.k])
       IN  IF c.ok THEN [res |-> AddMetric(res, tipo, c.val), exc |-> "none"]
           ELSE IF c.exc \in {"ValueError", "TypeError"} THEN [res |-> res, exc |-> "none"]
           ELSE [res |-> res, exc |-> c.exc]
  ELSE [res |-> res, exc |-> "none"]

\* mutant of Paso: resultados[tipo] read before the test of tipo, which
\* inserts the default entry
PasoLecturaTemprana(res, registro, ini, fin, campo) ==
  LET n == FechaNormalizada(registro)
      tipo == Get(registro, "tipoEnfermedad")
      skipped == [res |-> res, contado |-> FALSE, exc |-> "none"]
  IN  IF n.skip \/ n.fecha = PyNone THEN skipped
      ELSE LET w == EnIntervalo(ini, n.fecha, fin)
           IN  IF w = "TypeError" THEN [res |-> res, contado |-> FALSE, exc |-> "TypeError"]
               ELSE IF w = "out" THEN skipped
               ELSE IF ~ Truthy(tipo) THEN [skipped EXCEPT !.res = Touch(res, tipo)]
               ELSE LET a == AcumularMetrica(IncCount(res, tipo), registro, tipo, campo)
                    IN  [res |-> a.res, contado |-> TRUE, exc |-> a.exc]

\* lines 34-61: the accumulator after the registro, whether line 52 counted
\* it, and the exception that leaves the function ("none": the loop goes on)
Paso(res, registro, ini, fin, campo) ==
  LET n == FechaNormalizada(registro)
      tipo == Get(registro, "tipoEnfermedad")
      skipped == [res |-> res, contado |-> FALSE, exc |-> "none"]
  IN  IF n.skip \/ n.fecha = PyNone THEN skipped
      ELSE LET w == EnIntervalo(ini, n.fecha, fin)
           IN  IF w = "TypeError" THEN [res |-> res, contado |-> FALSE, exc |-> "TypeError"]
               ELSE IF w = "out" \/ ~ Truthy(tipo) THEN skipped
               ELSE LET a == AcumularMetrica(IncCount(res, tipo), registro, tipo, campo)
                    IN  [res |-> a.res, contado |-> TRUE, exc |-> a.exc]

(***************************************************************************)
(* Finalisation, lines 64-72.                                              *)
(***************************************************************************)
RECURSIVE GCD(_, _)
GCD(a, b) == IF b = 0 THEN a ELSE GCD(b, a % b)

\* sum / count.  The quotient is kept exact, as dividend over divisor, in
\* lowest terms when the dividend is below 2^53; the double the code emits
\* is the rounding of this quotient.
TrueDiv(sum, count) ==
  IF sum.hi = 0
  THEN LET g == GCD(sum.lo, count)
       IN  [num |-> PyFloat(0, sum.lo \div g), den |-> count \div g]
  ELSE [num |-> sum, den |-> count]

\* the literal 0.0
FloatZero == [num |-> PyFloat(0, 0), den |-> 1]

\* lines 69: data["sum_metric"] / data["count"] if data["count"] > 0 else 0.0
Promedio(data) ==
  IF data.count > 0 THEN TrueDiv(data.sum_metric, data.count) ELSE FloatZero

\* mutant of Estadisticas: `if campo_metrica is not None` for `if campo_metrica`
EstadisticasNoNone(res, campo) ==
  [tipo \in DOMAIN res |->
     IF campo # PyNone
     THEN [cantidad |-> res[tipo].count, promedio |-> Promedio(res[tipo])]
     ELSE [cantidad |-> res[tipo].count]]

\* lines 64-70: the returned dict
Estadisticas(res, campo) ==
  [tipo \in DOMAIN res |->
     IF Truthy(campo)
     THEN [cantidad |-> res[tipo].count, promedio |-> Promedio(res[tipo])]
     ELSE [cantidad |-> res[tipo].count]]

\* the empty dict
EmptyDict == [k \in {} |-> 0]

(***************************************************************************)
(* The whole call as a function of its arguments: the outcome of a run.    *)
(***************************************************************************)
RECURSIVE Bucle(_, _, _, _, _, _)
\* the for loop from registro k on: the final accumulator and the exception
Bucle(res, regs, k, ini, fin, campo) ==
  IF k > Len(regs) THEN [res |-> res, exc |-> "none"]
  ELSE LET p == Paso(res, regs[k], ini, fin, campo)
       IN  IF p.exc # "none" THEN [res |-> p.res, exc |-> p.exc]
           ELSE Bucle(p.res, regs, k + 1, ini, fin, campo)

\* calcular_estadisticas_pacientes(regs, ini, fin, campo): the dict returned,
\* or the exception raised
Calcular(regs, ini, fin, campo) ==
  LET b == Bucle(EmptyDict, regs, 1, ini, fin, campo)
  IN  IF b.exc = "none"
      THEN [exc |-> "none", estadisticas |-> Estadisticas(b.res, campo)]
      ELSE [exc |-> b.exc, estadisticas |-> EmptyDict]

(***************************************************************************)
(* The arguments the model calls the function with.                        *)
(***************************************************************************)
\* the characters of n written with w decimal digits
RECURSIVE Pad(_, _)
Pad(n, w) == IF w = 0 THEN <<>> ELSE Pad(n \div 10, w - 1) \o <<DigitChars[(n % 10) + 1]>>

\* the YYYY-MM-DD string of a date
FormatISO(f) == PyStr(Pad(f.y, 4) \o <<"-">> \o Pad(f.m, 2) \o <<"-">> \o Pad(f.d, 2))

NotADate == PyStr(<<"n", "o", "t", "-", "a", "-", "d", "a", "t", "e">>)
\* "2025-02-30": well formed, no such day
Feb30 == PyStr(<<"2", "0", "2", "5", "-", "0", "2", "-", "3", "0">>)
\* "2025-2-1": no zero padding, which strptime accepts
Unpadded == PyStr(<<"2", "0", "2", "5", "-", "2", "-", "1">>)
VIH == PyStr(<<"V", "I", "H">>)
HCV == PyStr(<<"H", "C", "V">>)
EmptyStr == PyStr(<<>>)
\* "N/A"
NA == PyStr(<<"N", "/", "A">>)
\* "6"
Six == PyStr(<<"6">>)
\* 2**53
TwoTo53 == PyInt(1, 0)

\* marks a key the registro does not have
Absent == [t |-> "absent"]

\* the registro with the given fechaIngreso, tipoEnfermedad and
\* tiempoHospitalizacion, whichever are not Absent
Registro(f, tipo, m) ==
  LET all == [fechaIngreso |-> f, tipoEnfermedad |-> tipo, tiempoHospitalizacion |-> m]
  IN  [k \in {x \in DOMAIN all : all[x] # Absent} |-> all[k]]

\* every shape of fechaIngreso: dates, ISO strings, malformed strings,
\* None, a missing key, and values of other types
Fechas1 ==
  {PyDate(2025, 1, 30), PyDate(2025, 1, 31), PyDate(2025, 2, 1),
   FormatISO(PyDate(2025, 1, 31)), FormatISO(PyDate(2025, 2, 1)), FormatISO(PyDate(2025, 2, 2)),
   NotADate, Feb30, Unpadded, PyNone, Absent,
   PyInt(0, 20250131), PyDateTime(2025, 1, 31)}

\* registros of Spec: every fechaIngreso on one counted shape, and the
\* other shapes of tipoEnfermedad and of the metric on two dates
Registros1 ==
  {Registro(f, VIH, PyInt(0, 5)) : f \in Fechas1}
  \cup {Registro(f, tipo, Absent) :
          f \in {PyDate(2025, 1, 31), FormatISO(PyDate(2025, 2, 1))},
          tipo \in {Absent, EmptyStr, HCV}}
  \cup {Registro(PyDate(2025, 1, 31), VIH, Absent)}

\* the ranges of one and two days over a month end
Rangos1 ==
  {<<PyDate(2025, 1, 31), PyDate(2025, 1, 31)>>,
   <<PyDate(2025, 1, 31), PyDate(2025, 2, 1)>>,
   <<PyDate(2025, 2, 1), PyDate(2025, 2, 1)>>}

Campos1 == {PyNone, PyName(""), PyName("tiempoHospitalizacion")}

\* registros of SpecM: every metric value on counted records, a second
\* category, and records the date filter drops
RegistrosM ==
  {Registro(PyDate(2025, 1, 31), VIH, m) :
     m \in {Absent, PyInt(0, 1), Six, NA, PyNone, TwoTo53, PyHugeInt}}
  \cup {Registro(PyDate(2025, 1, 31), HCV, m) : m \in {PyInt(0, 1), NA}}
  \cup {Registro(NotADate, VIH, PyInt(0, 1)), Registro(PyDate(2025, 2, 2), VIH, PyHugeInt)}

RangosM == {<<PyDate(2025, 1, 31), PyDate(2025, 2, 1)>>}

CamposM == {PyName("tiempoHospitalizacion"), PyName("peso")}

\* the lists of at most n elements of S
SeqsUpTo(S, n) == UNION {[1..k -> S] : k \in 0..n}

(***************************************************************************)
(* The run of one call.                                                    *)
(***************************************************************************)
VARIABLES
  registros,      \* argument: the list of records
  fecha_inicio,   \* argument
  fecha_fin,      \* argument
  campo_metrica,  \* argument: None or the name of a field
  pc,             \* "loop", "returned" or "raised"
  i,              \* index of the next registro of the for loop
  resultados,     \* the accumulator
  contados,       \* history: the indexes of the registros line 52 counted
  estadisticas,   \* the returned dict, once pc = "returned"
  excepcion       \* the exception that left the function, once pc = "raised"

vars == <<registros, fecha_inicio, fecha_fin, campo_metrica, pc, i, resultados,
          contados, estadisticas, excepcion>>

\* the state at line 31, for arguments drawn from the given sets
InitWith(regs, n, rangos, campos) ==
  /\ registros \in SeqsUpTo(regs, n)
  /\ \E r \in rangos : fecha_inicio = r[1] /\ fecha_fin = r[2]
  /\ campo_metrica \in campos
  /\ pc = "loop"
  /\ i = 1
  /\ resultados = EmptyDict
  /\ contados = {}
  /\ estadisticas = EmptyDict
  /\ excepcion = "none"

Init == InitWith(Registros1, MaxLen, Rangos1, Campos1)

InitM == InitWith(RegistrosM, MaxLenM, RangosM, CamposM)

\* one iteration of the for loop of line 33
ProcesarRegistro ==
  /\ pc = "loop"
  /\ i <= Len(registros)
  /\ LET p == Paso(resultados, registros[i], fecha_inicio, fecha_fin, campo_metrica)
     IN  IF p.exc # "none"
         THEN /\ pc' = "raised"
              /\ excepcion' = p.exc
              /\ UNCHANGED <<i, resultados, contados>>
         ELSE /\ resultados' = p.res
              /\ contados' = IF p.contado THEN contados \cup {i} ELSE contados
              /\ i' = i + 1
              /\ UNCHANGED <<pc, excepcion>>
  /\ UNCHANGED <<registros, fecha_inicio, fecha_fin, campo_metrica, estadisticas>>

\* lines 64-72, once the list is exhausted
Finalizar ==
  /\ pc = "loop"
  /\ i > Len(registros)
  /\ estadisticas' = Estadisticas(resultados, campo_metrica)
  /\ pc' = "returned"
  /\ UNCHANGED <<registros, fecha_inicio, fecha_fin, campo_metrica, i, resultados,
                 contados, excepcion>>

Next == ProcesarRegistro \/ Finalizar

Spec == Init /\ [][Next]_vars

SpecM == InitM /\ [][Next]_vars

(***************************************************************************)
(* What the claims speak of, stated apart from the code's own steps.       *)
(***************************************************************************)
RECURSIVE DaysBefore(_, _)
\* days of year y before month m
DaysBefore(y, m) == IF m = 1 THEN 0 ELSE DaysBefore(y, m - 1) + DaysInMonth(y, m - 1)

\* the day number of a date (date.toordinal())
Ordinal(f) ==
  LET p == f.y - 1
  IN  365 * p + (p \div 4) - (p \div 100) + (p \div 400) + DaysBefore(f.y, f.m) + f.d

\* the calendar days around the ranges of the model
Calendario == {PyDate(2025, 1, d) : d \in 28..31} \cup {PyDate(2025, 2, d) : d \in 1..4}

\* the ways to write the number n < 100 in a %m or %d field
Escrituras(n) == {Pad(n, 2)} \cup (IF n < 10 THEN {Pad(n, 1)} ELSE {})

\* the value x gives the calendar day f: the date itself, or a string
\* year-month-day of it
Denota(x, f) ==
  \/ x = f
  \/ /\ x.t = "str"
     /\ \E ms \in Escrituras(f.m), ds \in Escrituras(f.d) :
          x.v = Pad(f.y, 4) \o <<"-">> \o ms \o <<"-">> \o ds

\* registro j carries the calendar day f
TieneFecha(j, f) == Denota(Get(registros[j], "fechaIngreso"), f)

\* registro j carries a day of [fecha_inicio, fecha_fin]
EnRango(j) ==
  \E f \in Calendario :
    /\ TieneFecha(j, f)
    /\ Ordinal(fecha_inicio) <= Ordinal(f)
    /\ Ordinal(f) <= Ordinal(fecha_fin)

\* registro j has the non-empty label etiqueta as its category
TieneEtiqueta(j, etiqueta) ==
  /\ "tipoEnfermedad" \in DOMAIN registros[j]
  /\ registros[j].tipoEnfermedad = etiqueta
  /\ etiqueta.t = "str"
  /\ etiqueta.v # <<>>

\* the registros that should count for etiqueta
Esperados(etiqueta) == {j \in 1..Len(registros) : EnRango(j) /\ TieneEtiqueta(j, etiqueta)}

\* every value that is some registro's tipoEnfermedad, and every key returned
Etiquetas ==
  DOMAIN estadisticas
    \cup {Get(registros[j], "tipoEnfermedad") : j \in 1..Len(registros)}

\* C1: when the call returns, a label is a key of the result iff some
\* registro has a date in the range and that non-empty label as category,
\* and its cantidad is the number of such registros; a registro with a
\* missing or empty category adds to no count.
C1_ConteoPorCategoria ==
  pc = "returned" =>
    \A e \in Etiquetas :
      /\ e \in DOMAIN estadisticas <=> Esperados(e) # {}
      /\ e \in DOMAIN estadisticas => estadisticas[e].cantidad = Cardinality(Esperados(e))

\* C1 witness: a returned result with a counted label, next to a registro
\* in range that no count includes, its category being missing or empty
C1_Witness ==
  /\ pc = "returned"
  /\ \E e \in DOMAIN estadisticas : estadisticas[e].cantidad = 1
  /\ \E j \in 1..Len(registros) :
       EnRango(j) /\ \A e \in Etiquetas : ~ TieneEtiqueta(j, e)

\* C2: with fecha_inicio <= fecha_fin, a registro with a category whose
\* date is fecha_inicio or fecha_fin is counted, and one whose date is the
\* day before fecha_inicio or the day after fecha_fin is not.
C2_RangoInclusivo ==
  (pc = "returned" /\ Ordinal(fecha_inicio) <= Ordinal(fecha_fin)) =>
    \A j \in 1..Len(registros) :
      \A f \in Calendario :
        TieneFecha(j, f) =>
          /\ ((f = fecha_inicio \/ f = fecha_fin)
                 /\ \E e \in Etiquetas : TieneEtiqueta(j, e)) => j \in contados
          /\ (Ordinal(f) = Ordinal(fecha_inicio) - 1
                 \/ Ordinal(f) = Ordinal(fecha_fin) + 1) => j \notin contados

\* C2 witness: a range of two days, a registro on its last day counted and
\* a registro on the day before its first day not counted
C2_Witness ==
  /\ pc = "returned"
  /\ fecha_inicio # fecha_fin
  /\ Ordinal(fecha_inicio) <= Ordinal(fecha_fin)
  /\ \E j \in contados : TieneFecha(j, fecha_fin)
  /\ \E j \in 1..Len(registros) :
       /\ j \notin contados
       /\ \E e \in Etiquetas : TieneEtiqueta(j, e)
       /\ \E f \in Calendario : TieneFecha(j, f) /\ Ordinal(f) = Ordinal(fecha_inicio) - 1

\* the fechaIngreso of registro j is neither a date, nor a string, nor absent
OtroTipo(j) ==
  Get(registros[j], "fechaIngreso").t \notin {"date", "str", "NoneType"}

\* C4: a registro whose fechaIngreso is neither a date nor a string is
\* skipped and no error reaches the caller: the call never ends in an
\* exception at such a registro.
C4_OtroTipoOmitido ==
  pc = "raised" => ~ OtroTipo(i)

\* C6 as stated: when the call returns, an entry holds "promedio" exactly
\* when campo_metrica was given, whatever string it is.
C6_PromedioSiCampoDado ==
  pc = "returned" =>
    \A e \in DOMAIN estadisticas :
      /\ "cantidad" \in DOMAIN estadisticas[e]
      /\ "promedio" \in DOMAIN estadisticas[e] <=> campo_metrica # PyNone

\* C6 amended: an entry holds "promedio" exactly when campo_metrica was
\* given and is not the empty string; it always holds "cantidad".
C6_PromedioSiCampoNoVacio ==
  pc = "returned" =>
    \A e \in DOMAIN estadisticas :
      /\ "cantidad" \in DOMAIN estadisticas[e]
      /\ "promedio" \in DOMAIN estadisticas[e]
           <=> (campo_metrica # PyNone /\ campo_metrica # PyName(""))

\* C6 witness: a returned entry without promedio although campo_metrica was
\* given, as the empty string
C6_Witness ==
  /\ pc = "returned"
  /\ campo_metrica = PyName("")
  /\ \E e \in DOMAIN estadisticas : DOMAIN estadisticas[e] = {"cantidad"}

\* the outcome of the run, once it has ended
Resultado == [exc |-> excepcion, estadisticas |-> estadisticas]

\* registros with the fechaIngreso of registro j replaced by x
ConFecha(j, x) == [registros EXCEPT ![j] = [@ EXCEPT !.fechaIngreso = x]]

\* C7: replacing, in any registro, a date by its YYYY-MM-DD string, or a
\* YYYY-MM-DD string by the date of that day, leaves the outcome of the
\* call unchanged.
C7_ToleranciaFormato ==
  pc \in {"returned", "raised"} =>
    \A j \in 1..Len(registros) :
      \A f \in Calendario :
        LET x == Get(registros[j], "fechaIngreso")
        IN  /\ x = f =>
                 Calcular(ConFecha(j, FormatISO(f)), fecha_inicio, fecha_fin, campo_metrica)
                   = Resultado
            /\ x = FormatISO(f) =>
                 Calcular(ConFecha(j, f), fecha_inicio, fecha_fin, campo_metrica)
                   = Resultado

\* C7 witness: a returned call that counted a registro given with a date
\* and a registro given with a YYYY-MM-DD string
C7_Witness ==
  /\ pc = "returned"
  /\ \E j \in contados : Get(registros[j], "fechaIngreso").t = "date"
  /\ \E j \in contados :
       \E f \in Calendario : Get(registros[j], "fechaIngreso") = FormatISO(f)

\* C10: after any prefix of the list every entry of the accumulator has
\* count >= 1, so line 69 never takes its `else 0.0` branch.
C10_CountPositivo ==
  \A e \in DOMAIN resultados : resultados[e].count >= 1

\* C10 witness: still in the loop after two registros, one counted and one
\* in range that was skipped for its category
C10_Witness ==
  /\ pc = "loop"
  /\ i = 3
  /\ Cardinality(contados) = 1
  /\ DOMAIN resultados # {}
  /\ \E j \in 1..2 : j \notin contados /\ EnRango(j)

(***************************************************************************)
(* Claims on the metric, checked under SpecM.                              *)
(***************************************************************************)
\* what registro j adds to the sum of its category: its metric value as a
\* double, or 0.0 when it lacks the field or the value does not convert
Aporte(j) ==
  LET r == registros[j]
  IN  IF campo_metrica # PyNone /\ campo_metrica.k \in DOMAIN r /\ ToFloat(r[campo_metrica.k]).ok
      THEN ToFloat(r[campo_metrica.k]).val
      ELSE PyFloat(0, 0)

RECURSIVE SumaHasta(_, _)
\* the double sum, in list order, of what the first j registros add to etiqueta
SumaHasta(etiqueta, j) ==
  IF j = 0 THEN PyFloat(0, 0)
  ELSE IF j \in Esperados(etiqueta) THEN FloatAdd(SumaHasta(etiqueta, j - 1), Aporte(j))
  ELSE SumaHasta(etiqueta, j - 1)

\* q is the quotient sum / n
EsCociente(q, sum, n) ==
  IF sum.hi = 0
  THEN q.num.hi = 0 /\ q.num.lo * n = sum.lo * q.den /\ q.den >= 1
  ELSE q.num = sum /\ q.den = n

\* C3: with a metric field requested, the promedio of each category is the
\* sum of the convertible metric values of its counted registros divided by
\* its full count; a counted registro without a convertible value adds 0 to
\* the sum and 1 to the divisor, and a category with no numeric value gets 0.0.
C3_PromedioSobreCantidad ==
  (pc = "returned" /\ campo_metrica # PyNone /\ campo_metrica # PyName("")) =>
    \A e \in DOMAIN estadisticas :
      LET suma == SumaHasta(e, Len(registros))
      IN  /\ EsCociente(estadisticas[e].promedio, suma, Cardinality(Esperados(e)))
          /\ (\A j \in Esperados(e) : Aporte(j) = PyFloat(0, 0))
               => estadisticas[e].promedio = FloatZero

\* C3 witness: a category of two counted registros, one with a number and
\* one with a value that does not convert, so that the promedio is below
\* the number
C3_Witness ==
  /\ pc = "returned"
  /\ campo_metrica = PyName("tiempoHospitalizacion")
  /\ \E e \in DOMAIN estadisticas :
       /\ estadisticas[e].cantidad = 2
       /\ estadisticas[e].promedio = [num |-> PyFloat(0, 1), den |-> 2]
       /\ \E j \in Esperados(e) : Get(registros[j], "tiempoHospitalizacion") = NA

\* the fechaIngreso of registro j is a string that writes no calendar day
FechaMalformada(j) ==
  /\ Get(registros[j], "fechaIngreso").t = "str"
  /\ \A f \in Calendario : ~ TieneFecha(j, f)

\* the requested metric of registro j is present and does not convert
MetricaNoConvertible(j) ==
  /\ campo_metrica # PyNone
  /\ campo_metrica.k \in DOMAIN registros[j]
  /\ ~ ToFloat(registros[j][campo_metrica.k]).ok

\* C5: malformed data of a registro raises nothing: when every fechaIngreso
\* is a date, a string or absent the call returns; a registro with a
\* malformed date string is counted nowhere, and a registro in range with a
\* category and a metric value that does not convert is still counted.
C5_SinExcepcion ==
  /\ (\A j \in 1..Len(registros) : ~ OtroTipo(j)) => pc # "raised"
  /\ pc = "returned" =>
       \A j \in 1..Len(registros) :
         /\ FechaMalformada(j) => j \notin contados
         /\ (MetricaNoConvertible(j) /\ EnRango(j) /\ \E e \in Etiquetas : TieneEtiqueta(j, e))
              => j \in contados

\* the one-to-one maps of 1..n onto itself
Permutaciones(n) == {p \in [1..n -> 1..n] : \A a, b \in 1..n : a # b => p[a] # p[b]}

\* the list regs in the order p
Permutar(regs, p) == [k \in 1..Len(regs) |-> regs[p[k]]]

\* the accumulator and exception of the loop over the whole list regs
Acumulado(regs) == Bucle(EmptyDict, regs, 1, fecha_inicio, fecha_fin, campo_metrica)

\* every metric value of the list is an integer below 2^53 (and then so is
\* every total of the model, whose sums are therefore exact)
SumasExactas == \A j \in 1..Len(registros) : Aporte(j).hi = 0

\* C8 as stated: the call on any permutation of the list ends with the same
\* categories, the same count and the same metric sum per category.
C8_OrdenIndiferente ==
  pc = "returned" =>
    \A p \in Permutaciones(Len(registros)) :
      Acumulado(Permutar(registros, p)) = [res |-> resultados, exc |-> "none"]

\* C8 amended: the call on any permutation returns iff the call returns,
\* with the same categories and the same count per category, and with the
\* same metric sum per category when the sums are exact.
C8_OrdenIndiferenteExacto ==
  pc \in {"returned", "raised"} =>
    \A p \in Permutaciones(Len(registros)) :
      LET b == Acumulado(Permutar(registros, p))
      IN  /\ b.exc = "none" <=> pc = "returned"
          /\ pc = "returned" =>
               /\ DOMAIN b.res = DOMAIN resultados
               /\ \A e \in DOMAIN resultados :
                    /\ b.res[e].count = resultados[e].count
                    /\ SumasExactas => b.res[e].sum_metric = resultados[e].sum_metric

\* C8 witness: three registros of one category with two different numbers
C8_Witness ==
  /\ pc = "returned"
  /\ SumasExactas
  /\ \E e \in DOMAIN resultados :
       /\ resultados[e].count = 3
       /\ \E j, k \in Esperados(e) : Aporte(j).lo = 1 /\ Aporte(k).lo = 6

\* the per-category merge of two accumulators: counts added, sums added
Merge(a, b) ==
  LET en(x, e) == IF e \in DOMAIN x THEN x[e] ELSE [count |-> 0, sum_metric |-> PyFloat(0, 0)]
  IN  [e \in DOMAIN a \cup DOMAIN b |->
         [count |-> en(a, e).count + en(b, e).count,
          sum_metric |-> FloatAdd(en(a, e).sum_metric, en(b, e).sum_metric)]]

\* the accumulators of the chunks registros[1..k] and registros[k+1..]
ChunkA(k) == Acumulado(SubSeq(registros, 1, k)).res
ChunkB(k) == Acumulado(SubSeq(registros, k + 1, Len(registros))).res

\* C9 as stated: for every split of the list in two chunks, merging the
\* chunks' accumulators, in either order, gives the counts and the averages
\* of the call on the whole list.
C9_ParticionSegura ==
  pc = "returned" =>
    \A k \in 0..Len(registros) :
      /\ Estadisticas(Merge(ChunkA(k), ChunkB(k)), campo_metrica) = estadisticas
      /\ Merge(ChunkB(k), ChunkA(k)) = Merge(ChunkA(k), ChunkB(k))

\* C9 amended: merging the chunks' accumulators, in either order, gives the
\* categories and counts of the call on the whole list, and its averages
\* when the sums are exact.
C9_ParticionSeguraExacta ==
  pc = "returned" =>
    \A k \in 0..Len(registros) :
      LET m == Merge(ChunkA(k), ChunkB(k))
      IN  /\ Estadisticas(m, PyNone) = Estadisticas(resultados, PyNone)
          /\ SumasExactas => Estadisticas(m, campo_metrica) = estadisticas
          /\ Merge(ChunkB(k), ChunkA(k)) = m

\* C9 witness: a list whose two chunks both count for the same category
\* and both add a number to its sum
C9_Witness ==
  /\ pc = "returned"
  /\ SumasExactas
  /\ \E k \in 1..(Len(registros) - 1) :
       \E e \in DOMAIN ChunkA(k) \cap DOMAIN ChunkB(k) :
         /\ ChunkA(k)[e].sum_metric.lo > 0
         /\ ChunkB(k)[e].sum_metric.lo > 0

====
